---- MODULE Spec2Model ----
(***************************************************************************)
(* Dual-asset staking APY engine (dynamic_inflation.py) and the sweep     *)
(* loop of its dashboard (econ/chart_apy.py).                             *)
(*                                                                         *)
(* Numbers.  The program computes on Python floats.  They are modelled    *)
(* as exact rationals in decimal scientific notation, n/d * 10^e, kept in *)
(* a canonical form, so that 1e10, 75000 and 0.08 are all representable   *)
(* with small integers.  Rounding of the binary floating point format is  *)
(* not modelled: results agree with the program up to its last digits.    *)
(***************************************************************************)
EXTENDS Integers, Sequences, FiniteSets, TLC

VARIABLES
    op, arg, out,                 \* a direct call of one policy function
    heap, made, calls,            \* StakingData objects and the calls on them
    params, app_pc, stake_i, sr_i, sys_stdout, n_streams,
    results, all_debug_output, errors   \* DynamicInflationApp.main

vars == <<op, arg, out, heap, made, calls, params, app_pc, stake_i, sr_i,
          sys_stdout, n_streams, results, all_debug_output, errors>>

pureVars == <<op, arg, out>>
engineVars == <<heap, made, calls>>
appVars == <<params, app_pc, stake_i, sr_i, sys_stdout, n_streams,
             results, all_debug_output, errors>>

----------------------------------------------------------------------------
(* Exact arithmetic on n/d * 10^e *)

Abs(x) == IF x < 0 THEN -x ELSE x

RECURSIVE GCD(_, _)
GCD(a, b) == IF b = 0 THEN Abs(a) ELSE GCD(b, Abs(a) % Abs(b))

RECURSIVE Pow10(_)
Pow10(k) == IF k <= 0 THEN 1 ELSE 10 * Pow10(k - 1)

\* Canonical form: n/d in lowest terms, d > 0 coprime to 10, 10 does not
\* divide n; zero is 0/1 * 10^0.
RECURSIVE Norm(_, _, _)
Norm(n, d, e) ==
    IF n = 0 THEN [n |-> 0, d |-> 1, e |-> 0]
    ELSE IF d < 0 THEN Norm(-n, -d, e)
    ELSE IF GCD(n, d) > 1 THEN Norm(n \div GCD(n, d), d \div GCD(n, d), e)
    ELSE IF d % 2 = 0 THEN Norm(n * 5, d \div 2, e - 1)
    ELSE IF d % 5 = 0 THEN Norm(n * 2, d \div 5, e - 1)
    ELSE IF n % 10 = 0 THEN Norm(n \div 10, d, e + 1)
    ELSE [n |-> n, d |-> d, e |-> e]

\* The decimal literal m * 10^e, and the fraction n/d.
Dec(m, e) == Norm(m, 1, e)
Frac(n, d) == Norm(n, d, 0)

Zero == Dec(0, 0)
One == Dec(1, 0)
Hundred == Dec(100, 0)

IsZero(a) == a.n = 0
Sign(a) == IF a.n > 0 THEN 1 ELSE IF a.n < 0 THEN -1 ELSE 0

MinInt(x, y) == IF x <= y THEN x ELSE y

Neg(a) == [n |-> -a.n, d |-> a.d, e |-> a.e]

Add(a, b) ==
    IF IsZero(a) THEN b
    ELSE IF IsZero(b) THEN a
    ELSE LET m == MinInt(a.e, b.e)
         IN  Norm(a.n * Pow10(a.e - m) * b.d + b.n * Pow10(b.e - m) * a.d,
                  a.d * b.d, m)

Sub(a, b) == Add(a, Neg(b))

Mul(a, b) ==
    IF IsZero(a) \/ IsZero(b) THEN Zero
    ELSE LET g1 == GCD(a.n, b.d)
             g2 == GCD(b.n, a.d)
         IN  Norm((a.n \div g1) * (b.n \div g2),
                  (a.d \div g2) * (b.d \div g1), a.e + b.e)

\* Defined for b # 0 only; the program's division is TrueDiv below.
Quot(a, b) == Mul(a, Norm(b.d, b.n, -b.e))

\* n/d * 10^e < 1, for n > 0 and d > 0.
RECURSIVE BelowOne(_, _, _)
BelowOne(n, d, e) ==
    IF e = 0 THEN n < d
    ELSE IF e > 0 THEN (IF n >= d THEN FALSE ELSE BelowOne(n * 10, d, e - 1))
    ELSE (IF n < d THEN TRUE ELSE BelowOne(n, d * 10, e + 1))

Lt(a, b) ==
    IF Sign(a) # Sign(b) THEN Sign(a) < Sign(b)
    ELSE IF Sign(a) = 0 THEN FALSE
    ELSE LET q == IF Sign(a) > 0 THEN Quot(a, b) ELSE Quot(b, a)
         IN  BelowOne(q.n, q.d, q.e)
Le(a, b) == a = b \/ Lt(a, b)

----------------------------------------------------------------------------
(* Outcomes of a Python call: a returned value or a raised exception *)

Ret(v) == [kind |-> "return", value |-> v, exc |-> "-"]
Raise(x) == [kind |-> "raise", value |-> <<>>, exc |-> x]
NoOutcome == [kind |-> "none", value |-> <<>>, exc |-> "-"]

Returned(o) == o.kind = "return"
Raised(o, x) == o.kind = "raise" /\ o.exc = x

SameOutcome(a, b) ==
    /\ a.kind = b.kind
    /\ a.exc = b.exc
    /\ Returned(a) => a.value = b.value

\* Python's a / b on numbers: raises ZeroDivisionError when b is zero.
TrueDiv(a, b) ==
    IF IsZero(b) THEN Raise("ZeroDivisionError") ELSE Ret(Quot(a, b))

----------------------------------------------------------------------------
(* dynamic_inflation.py *)

\* A StakingData object is its attribute dictionary: the dataclass declares
\* six fields, and Python lets any code add further attributes to it.
StakingData(FYAP, BBN_TS, BTC_Stake, BBN_SR, Price_BBN, Price_BTC) ==
    [FYAP |-> FYAP, BBN_TS |-> BBN_TS, BTC_Stake |-> BTC_Stake,
     BBN_SR |-> BBN_SR, Price_BBN |-> Price_BBN, Price_BTC |-> Price_BTC]

DeclaredFields ==
    {"FYAP", "BBN_TS", "BTC_Stake", "BBN_SR", "Price_BBN", "Price_BTC"}

HasAttr(obj, a) == a \in DOMAIN obj

SetAttr(obj, a, v) ==
    [x \in DOMAIN obj \cup {a} |-> IF x = a THEN v ELSE obj[x]]

APYResults(BBN_APY, BTC_APY) == [BBN_APY |-> BBN_APY, BTC_APY |-> BTC_APY]

\* Stake Target is assumed to be 0.4
StakeTarget == Dec(4, -1)

calculate_beta(staking_data) == TrueDiv(staking_data.BBN_SR, StakeTarget)

UpperBeta == Dec(24, -1)

\* calculate_gamma with the first boundary moved: beta = 1 in the low branch.
calculate_gamma_low_inclusive(beta) ==
    IF Le(beta, One)
        THEN TrueDiv(Quot(One, Dec(4, 0)), Quot(Dec(3, 0), Dec(4, 0)))
    ELSE IF Le(beta, UpperBeta)
        THEN TrueDiv(Dec(4, -1), Dec(6, -1))
    ELSE TrueDiv(Dec(5, -1), Dec(5, -1))

calculate_gamma(beta) ==
    IF Lt(beta, One)
        THEN TrueDiv(Quot(One, Dec(4, 0)), Quot(Dec(3, 0), Dec(4, 0)))
    ELSE IF Le(One, beta) /\ Le(beta, UpperBeta)
        THEN TrueDiv(Dec(4, -1), Dec(6, -1))
    ELSE IF Lt(UpperBeta, beta)
        THEN TrueDiv(Dec(5, -1), Dec(5, -1))
    ELSE Raise("UnboundLocalError")

\* calculate_splits returning the pair in the wrong order.
calculate_splits_swapped(gamma) ==
    IF IsZero(Add(gamma, One))
        THEN Raise("ValueError")
    ELSE LET Split_BTC == TrueDiv(One, Add(gamma, One))
         IN  IF ~Returned(Split_BTC) THEN Split_BTC
             ELSE Ret(<<Split_BTC.value, Sub(One, Split_BTC.value)>>)

\* calculate_splits without its guard.
calculate_splits_unguarded(gamma) ==
    LET Split_BTC == TrueDiv(One, Add(gamma, One))
    IN  IF ~Returned(Split_BTC) THEN Split_BTC
        ELSE Ret(<<Sub(One, Split_BTC.value), Split_BTC.value>>)

calculate_splits(gamma) ==
    IF IsZero(Add(gamma, One))
        THEN Raise("ValueError")
    ELSE LET Split_BTC == TrueDiv(One, Add(gamma, One))
         IN  IF ~Returned(Split_BTC) THEN Split_BTC
             ELSE Ret(<<Sub(One, Split_BTC.value), Split_BTC.value>>)

\* calculate_BBN_APY that forgets to divide by the staking rate.
calculate_BBN_APY_undivided(staking_data) ==
    IF ~HasAttr(staking_data, "split_BBN") THEN Raise("AttributeError")
    ELSE Ret(Mul(Mul(staking_data.FYAP, staking_data.split_BBN), Hundred))

calculate_BBN_APY(staking_data) ==
    IF ~HasAttr(staking_data, "split_BBN") THEN Raise("AttributeError")
    ELSE LET q == TrueDiv(Mul(staking_data.FYAP, staking_data.split_BBN),
                          staking_data.BBN_SR)
         IN  IF ~Returned(q) THEN q ELSE Ret(Mul(q.value, Hundred))

\* calculate_BTC_APY dividing by the staked amount in units, not in BTC.
calculate_BTC_APY_raw_stake(staking_data) ==
    LET BBN_FDV == Mul(staking_data.BBN_TS, staking_data.Price_BBN)
    IN  IF ~HasAttr(staking_data, "split_BTC") THEN Raise("AttributeError")
        ELSE LET Amount_of_BTC ==
                     TrueDiv(Mul(Mul(staking_data.FYAP, staking_data.split_BTC),
                                 BBN_FDV),
                             staking_data.Price_BTC)
             IN  IF ~Returned(Amount_of_BTC) THEN Amount_of_BTC
                 ELSE LET q == TrueDiv(Amount_of_BTC.value,
                                       staking_data.BTC_Stake)
                      IN  IF ~Returned(q) THEN q
                          ELSE Ret(Mul(q.value, Hundred))

calculate_BTC_APY(staking_data) ==
    LET BBN_FDV == Mul(staking_data.BBN_TS, staking_data.Price_BBN)
    IN  IF ~HasAttr(staking_data, "split_BTC") THEN Raise("AttributeError")
        ELSE LET Amount_of_BTC ==
                     TrueDiv(Mul(Mul(staking_data.FYAP, staking_data.split_BTC),
                                 BBN_FDV),
                             staking_data.Price_BTC)
                 staked == TrueDiv(staking_data.BTC_Stake,
                                   staking_data.Price_BTC)
             IN  IF ~Returned(Amount_of_BTC) THEN Amount_of_BTC
                 ELSE IF ~Returned(staked) THEN staked
                 ELSE LET q == TrueDiv(Amount_of_BTC.value, staked.value)
                      IN  IF ~Returned(q) THEN q
                          ELSE Ret(Mul(q.value, Hundred))

\* The call's outcome together with the object as the call leaves it.
Effect(outcome, obj) == [outcome |-> outcome, obj |-> obj]

\* calculate_APYs from line 115 on: the splits are stored on the object,
\* then read back from it by the two APY methods.
StoreAndYield(staking_data, Split_BBN, Split_BTC) ==
    LET stored == SetAttr(SetAttr(staking_data, "split_BBN", Split_BBN),
                          "split_BTC", Split_BTC)
        BBN_APY == calculate_BBN_APY(stored)
        BTC_APY == calculate_BTC_APY(stored)
    IN  IF ~Returned(BBN_APY) THEN Effect(BBN_APY, stored)
        ELSE IF ~Returned(BTC_APY) THEN Effect(BTC_APY, stored)
        ELSE Effect(Ret(APYResults(BBN_APY.value, BTC_APY.value)), stored)

\* calculate_APYs that also writes beta back over the object's BBN_SR.
calculate_APYs_writes_beta(staking_data) ==
    LET beta == calculate_beta(staking_data)
        gamma == IF Returned(beta) THEN calculate_gamma(beta.value) ELSE beta
        splits == IF Returned(gamma) THEN calculate_splits(gamma.value)
                  ELSE gamma
    IN  IF ~Returned(splits) THEN Effect(splits, staking_data)
        ELSE StoreAndYield(SetAttr(staking_data, "BBN_SR", beta.value),
                           splits.value[1], splits.value[2])

calculate_APYs(staking_data) ==
    LET beta == calculate_beta(staking_data)
        gamma == IF Returned(beta) THEN calculate_gamma(beta.value) ELSE beta
        splits == IF Returned(gamma) THEN calculate_splits(gamma.value)
                  ELSE gamma
    IN  IF ~Returned(splits) THEN Effect(splits, staking_data)
        ELSE StoreAndYield(staking_data, splits.value[1], splits.value[2])

\* A fresh, stateless calculator per call.
simulate_staking_apy(staking_data) == calculate_APYs(staking_data)

----------------------------------------------------------------------------
(* Direct calls of the policy functions on a grid of arguments *)

GridMax == 60

\* k/20 for -3 <= k/20 <= 3, and the thirds between -2 and 2.
Args ==
    {Frac(k, 20) : k \in -GridMax .. GridMax} \cup {Frac(k, 3) : k \in -6 .. 6}

PureIdle ==
    /\ op = "none"
    /\ out = NoOutcome

InitPure ==
    /\ arg \in Args
    /\ PureIdle
    /\ heap = <<>> /\ made = <<>> /\ calls = <<>>
    /\ params = <<>> /\ app_pc = "off" /\ stake_i = 0 /\ sr_i = 0
    /\ sys_stdout = 0 /\ n_streams = 0
    /\ results = <<>> /\ all_debug_output = <<>> /\ errors = <<>>

CallGamma ==
    /\ op = "none"
    /\ op' = "calculate_gamma"
    /\ out' = calculate_gamma(arg)
    /\ UNCHANGED <<arg, engineVars, appVars>>

CallSplits ==
    /\ op = "none"
    /\ op' = "calculate_splits"
    /\ out' = calculate_splits(arg)
    /\ UNCHANGED <<arg, engineVars, appVars>>

\* calculate_APYs line 114: the splits of the gamma just computed.
CallSplitsOfGamma ==
    /\ op = "calculate_gamma"
    /\ Returned(out)
    /\ op' = "splits_of_gamma"
    /\ arg' = out.value
    /\ out' = calculate_splits(out.value)
    /\ UNCHANGED <<engineVars, appVars>>

NextPure == CallGamma \/ CallSplits \/ CallSplitsOfGamma

SpecPure == InitPure /\ [][NextPure]_vars

----------------------------------------------------------------------------
(* econ/chart_apy.py: the sidebar inputs and the ranges made from them *)

MaxSRSteps == 3
MaxStakeSteps == 2

\* np.linspace(start, stop, num)[i - 1] for num >= 2: start + (i - 1) * step.
linspace(start, stop, num, i) ==
    Add(start, Mul(Dec(i - 1, 0), Quot(Sub(stop, start), Dec(num - 1, 0))))

\* Streams are numbered; 0 is the stream sys.stdout is when main starts.
\* capture_prints makes a new StringIO, installs it as sys.stdout and
\* returns it with the stream it replaced.
capture_prints(stdout, streams) ==
    [output |-> streams + 1, old_stdout |-> stdout, sys_stdout |-> streams + 1]

\* Sidebar values within the widgets' limits; the first of each is the
\* widget's default where the bound on the steps allows it.
SidebarParams ==
    {[fyap |-> Dec(8, -2), bbn_ts |-> Dec(1, 10), price_bbn |-> pb,
      price_btc |-> Dec(75, 3),
      bbn_sr_start |-> s0, bbn_sr_end |-> s1, bbn_sr_steps |-> sn,
      btc_stake_start |-> Dec(2, 9), btc_stake_end |-> Dec(1, 10),
      btc_stake_steps |-> bn] :
        pb \in {One, Zero},
        s0 \in {Dec(1, -1), Zero, Dec(4, -1)},
        s1 \in {One, Dec(4, -1)},
        sn \in 2 .. MaxSRSteps,
        bn \in 2 .. MaxStakeSteps}

\* The snapshots main constructs for sidebar values p: one per BTC stake
\* and staking rate of the two ranges.
SweepSnapshots(p) ==
    {StakingData(p.fyap, p.bbn_ts,
                 linspace(p.btc_stake_start, p.btc_stake_end,
                          p.btc_stake_steps, j),
                 linspace(p.bbn_sr_start, p.bbn_sr_end, p.bbn_sr_steps, i),
                 p.price_bbn, p.price_btc) :
        j \in 1 .. p.btc_stake_steps, i \in 1 .. p.bbn_sr_steps}

----------------------------------------------------------------------------
(* Calls of simulate_staking_apy on StakingData objects *)

MaxObjs == 2
MaxCalls == 3

Declared(obj) == [f \in DeclaredFields |-> obj[f]]

\* The object the caller constructs (it has the six declared fields only),
\* kept in `made` as the caller wrote it.
NewStakingData(s) ==
    /\ Len(heap) < MaxObjs
    /\ heap' = Append(heap, s)
    /\ made' = Append(made, s)
    /\ UNCHANGED <<calls, pureVars, appVars>>

\* One call; the log keeps the object before and after it and the outcome.
Simulate(o) ==
    /\ o \in 1 .. Len(heap)
    /\ Len(calls) < MaxCalls
    /\ LET r == simulate_staking_apy(heap[o])
       IN  /\ heap' = [heap EXCEPT ![o] = r.obj]
           /\ calls' = Append(calls, [obj |-> o, before |-> heap[o],
                                      after |-> r.obj, outcome |-> r.outcome])
    /\ UNCHANGED <<made, pureVars, appVars>>

EngineIdle ==
    /\ arg = Zero /\ PureIdle
    /\ params = <<>> /\ app_pc = "off" /\ stake_i = 0 /\ sr_i = 0
    /\ sys_stdout = 0 /\ n_streams = 0
    /\ results = <<>> /\ all_debug_output = <<>> /\ errors = <<>>

\* The snapshots the example driver (__main__) constructs: bbn_sr 0.2,
\* price_bbn 0.1 and each of its four BTC stakes.
MainSnapshots ==
    {StakingData(Dec(8, -2), Dec(1, 10), btc_stake, bbn_sr, price_bbn,
                 Dec(75, 3)) :
        bbn_sr \in {Dec(2, -1)},
        price_bbn \in {Dec(1, -1)},
        btc_stake \in {Dec(2, 9), Dec(5, 9), Dec(8, 9), Dec(1, 10)}}

\* The dashboard with its default values, but the BBN_SR range started at
\* 0.0 and both ranges in two steps, the least the widgets accept.
SessionParams ==
    {p \in SidebarParams : /\ p.price_bbn = One
                           /\ p.bbn_sr_start = Zero
                           /\ p.bbn_sr_end = One
                           /\ p.bbn_sr_steps = 2
                           /\ p.btc_stake_steps = 2}

Init ==
    /\ heap = <<>> /\ made = <<>> /\ calls = <<>>
    /\ EngineIdle

CreateInMain == \E s \in MainSnapshots : NewStakingData(s)
CreateInDashboard ==
    \E p \in SessionParams : \E s \in SweepSnapshots(p) : NewStakingData(s)
Call == \E o \in 1 .. Len(heap) : Simulate(o)

\* Any client of the module: it constructs the snapshots the two callers in
\* the repository construct, and calls simulate_staking_apy on them in any
\* order, also repeatedly on one object.
Next == CreateInMain \/ CreateInDashboard \/ Call

Spec == Init /\ [][Next]_vars

\* A single object drawn from the whole grid of field values, valid and not.
FYAPs == {Dec(8, -2), Zero, One, Dec(15, -1), Dec(-8, -2)}
Supplies == {Dec(1, 10), Zero, Dec(-1, 10)}
Stakes == {Dec(2, 9), Dec(5, 9), Zero, Dec(-2, 9)}
Ratios == {Zero, Dec(2, -1), Dec(3, -1), Dec(4, -1), Dec(8, -1), Dec(96, -2),
           Dec(97, -2), One, Dec(-2, -1), Dec(12, -1)}
PricesBBN == {Dec(1, -1), Zero, Dec(-1, -1)}
PricesBTC == {Dec(75, 3), Zero, Dec(-75, 3)}

Snapshots ==
    {StakingData(f, ts, st, sr, pb, pc) :
        f \in FYAPs, ts \in Supplies, st \in Stakes, sr \in Ratios,
        pb \in PricesBBN, pc \in PricesBTC}

InitCall ==
    /\ \E s \in Snapshots : heap = <<s>> /\ made = <<s>>
    /\ calls = <<>>
    /\ EngineIdle

NextCall == Call

SpecCall == InitCall /\ [][NextCall]_vars

----------------------------------------------------------------------------
(* econ/chart_apy.py: the sweep of DynamicInflationApp.main *)

InitApp ==
    /\ params \in SidebarParams
    /\ app_pc = "sweep"
    /\ stake_i = 1 /\ sr_i = 1
    /\ sys_stdout = 0 /\ n_streams = 0
    /\ results = <<>> /\ all_debug_output = <<>> /\ errors = <<>>
    /\ arg = Zero /\ PureIdle
    /\ heap = <<>> /\ made = <<>> /\ calls = <<>>

\* One pass of the body of `for bbn_sr in bbn_sr_range`.
Iteration ==
    /\ app_pc = "sweep"
    /\ sr_i <= params.bbn_sr_steps
    /\ LET btc_stake == linspace(params.btc_stake_start, params.btc_stake_end,
                                 params.btc_stake_steps, stake_i)
           bbn_sr == linspace(params.bbn_sr_start, params.bbn_sr_end,
                              params.bbn_sr_steps, sr_i)
           staking_data == StakingData(params.fyap, params.bbn_ts, btc_stake,
                                       bbn_sr, params.price_bbn,
                                       params.price_btc)
           captured == capture_prints(sys_stdout, n_streams)
           apy_results == simulate_staking_apy(staking_data).outcome
       IN  /\ n_streams' = captured.output
           /\ IF Returned(apy_results)
                 THEN /\ sys_stdout' = captured.old_stdout
                      /\ all_debug_output' =
                             Append(all_debug_output, captured.output)
                      /\ results' =
                             Append(results,
                                    [BBN_SR |-> bbn_sr,
                                     Beta |-> Quot(bbn_sr, StakeTarget),
                                     BBN_APY |-> apy_results.value.BBN_APY,
                                     BTC_APY |-> apy_results.value.BTC_APY])
                      /\ UNCHANGED errors
                 ELSE /\ sys_stdout' = captured.sys_stdout
                      /\ errors' = Append(errors, bbn_sr)
                      /\ UNCHANGED <<results, all_debug_output>>
    /\ sr_i' = sr_i + 1
    /\ UNCHANGED <<params, app_pc, stake_i, pureVars, engineVars>>

\* The rest of the body of `for btc_stake in btc_stake_range`: the results
\* of this stake are rendered and the next stake starts with empty lists.
RenderStake ==
    /\ app_pc = "sweep"
    /\ sr_i > params.bbn_sr_steps
    /\ results' = <<>>
    /\ all_debug_output' = <<>>
    /\ sr_i' = 1
    /\ stake_i' = stake_i + 1
    /\ app_pc' = IF stake_i = params.btc_stake_steps THEN "done" ELSE "sweep"
    /\ UNCHANGED <<params, sys_stdout, n_streams, errors, pureVars,
                   engineVars>>

NextApp == Iteration \/ RenderStake

SpecApp == InitApp /\ [][NextApp]_vars

----------------------------------------------------------------------------
(* Properties of the policy functions (SpecPure) *)

Third == Frac(1, 3)
TwoThirds == Frac(2, 3)
MinusOne == Dec(-1, 0)

InUnit(x) == Le(Zero, x) /\ Le(x, One)

\* C1: calculate_gamma is a step function of beta: 1/3 below 1, 2/3 from 1
\* to 2.4 with both ends included, 1 above 2.4, and nothing else.
C1_GammaStepFunction ==
    op = "calculate_gamma" =>
        /\ Returned(out)
        /\ out.value \in {Third, TwoThirds, One}
        /\ Lt(arg, One) => out.value = Third
        /\ (Le(One, arg) /\ Le(arg, Dec(24, -1))) => out.value = TwoThirds
        /\ Lt(Dec(24, -1), arg) => out.value = One

C1_Witness ==
    /\ op = "calculate_gamma"
    /\ arg = Dec(24, -1)
    /\ out = Ret(TwoThirds)

\* C2: for gamma > -1 the two shares sum to 1 and their quotient is gamma;
\* for a gamma produced by calculate_gamma both shares lie in [0, 1].
C2_SplitsSolveConstraints ==
    (op \in {"calculate_splits", "splits_of_gamma"} /\ Lt(MinusOne, arg)) =>
        /\ Returned(out)
        /\ Add(out.value[1], out.value[2]) = One
        /\ ~IsZero(out.value[2])
        /\ Quot(out.value[1], out.value[2]) = arg
        /\ op = "splits_of_gamma" =>
               InUnit(out.value[1]) /\ InUnit(out.value[2])

C2_Witness ==
    /\ op = "splits_of_gamma"
    /\ arg = TwoThirds
    /\ out = Ret(<<Dec(4, -1), Dec(6, -1)>>)

\* C4: with gamma + 1 = 0 calculate_splits raises its ValueError; the
\* division is not reached, so no ZeroDivisionError and no pair comes out.
C4_GuardBeforeDivision ==
    (op = "calculate_splits" /\ arg = MinusOne) => Raised(out, "ValueError")

C4_Witness ==
    /\ op = "calculate_splits"
    /\ arg = MinusOne
    /\ out.kind = "raise"

----------------------------------------------------------------------------
(* Properties of one call of calculate_APYs (SpecCall) *)

CallIds == 1 .. Len(calls)

InDomain(s) ==
    /\ InUnit(s.FYAP)
    /\ InUnit(s.BBN_SR)
    /\ Sign(s.BBN_TS) > 0
    /\ Sign(s.BTC_Stake) > 0
    /\ Sign(s.Price_BBN) > 0
    /\ Sign(s.Price_BTC) > 0

\* C3: a call on a snapshot with BBN_SR = 0 ends in a typed error, not in a
\* returned value and not in the raw arithmetic fault.
C3_ZeroRatioTypedError ==
    \A i \in CallIds :
        IsZero(calls[i].before.BBN_SR) =>
            /\ calls[i].outcome.kind = "raise"
            /\ calls[i].outcome.exc # "ZeroDivisionError"

\* C5: a call on a snapshot with a field outside its domain raises
\* InvalidInput before anything is computed.
C5_InvalidInputRejected ==
    \A i \in CallIds :
        ~InDomain(Declared(calls[i].before)) =>
            /\ Raised(calls[i].outcome, "InvalidInput")
            /\ calls[i].after = calls[i].before

Scenario ==
    StakingData(Dec(8, -2), Dec(1, 10), Dec(2, 9), Dec(2, -1), Dec(1, -1),
                Dec(75, 3))

\* C6: the scenario snapshot goes through beta 0.5, gamma 1/3, shares 0.25
\* and 0.75, and yields BBN_APY 10 and BTC_APY 3.
C6_Scenario ==
    \A i \in CallIds :
        Declared(calls[i].before) = Scenario =>
            /\ calculate_beta(calls[i].before) = Ret(Dec(5, -1))
            /\ calculate_gamma(Dec(5, -1)) = Ret(Third)
            /\ calls[i].after.split_BBN = Dec(25, -2)
            /\ calls[i].after.split_BTC = Dec(75, -2)
            /\ calls[i].outcome = Ret(APYResults(Dec(10, 0), Dec(3, 0)))

C6_Witness ==
    \E i \in CallIds :
        /\ Declared(calls[i].before) = Scenario
        /\ Returned(calls[i].outcome)
        /\ calls[i].outcome.value.BBN_APY = Dec(10, 0)

GammaOf(sr) == calculate_gamma(calculate_beta([BBN_SR |-> sr]).value)

\* The call's snapshot with a larger staking rate of the same gamma branch.
LargerRatios(s) ==
    {sr \in Ratios : /\ Lt(s.BBN_SR, sr)
                     /\ InUnit(sr)
                     /\ GammaOf(sr) = GammaOf(s.BBN_SR)}

\* C8: of two valid snapshots that differ in a positive BBN_SR only, within
\* one gamma branch and with FYAP > 0, the larger rate has the smaller BBN_APY.
C8_NativeAPYDecreasing ==
    \A i \in CallIds :
        LET s == Declared(calls[i].before)
        IN  (InDomain(s) /\ Sign(s.BBN_SR) > 0 /\ Sign(s.FYAP) > 0) =>
                \A sr \in LargerRatios(s) :
                    LET other ==
                            simulate_staking_apy([s EXCEPT !.BBN_SR = sr])
                    IN  /\ Returned(calls[i].outcome)
                        /\ Returned(other.outcome)
                        /\ Lt(other.outcome.value.BBN_APY,
                              calls[i].outcome.value.BBN_APY)

C8_Witness ==
    \E i \in CallIds :
        LET s == Declared(calls[i].before)
        IN  /\ InDomain(s)
            /\ s.BBN_SR = Dec(4, -1)
            /\ Sign(s.FYAP) > 0
            /\ Dec(96, -2) \in LargerRatios(s)
            /\ Returned(calls[i].outcome)
            /\ calls[i].outcome.value.BBN_APY = Dec(8, 0)

----------------------------------------------------------------------------
(* Properties of sequences of calls (Spec) *)

\* C7: calls on identical snapshots, on one object or on several, with any
\* other calls in between, have identical outcomes.
C7_Idempotent ==
    \A i, j \in CallIds :
        made[calls[i].obj] = made[calls[j].obj] =>
            SameOutcome(calls[i].outcome, calls[j].outcome)

C7_Witness ==
    /\ Len(calls) = 3
    /\ calls[1].obj = calls[3].obj
    /\ calls[2].obj # calls[1].obj
    /\ made[calls[2].obj] # made[calls[1].obj]
    /\ Returned(calls[1].outcome)
    /\ calls[3].outcome = calls[1].outcome

\* C10: a call leaves the StakingData object as it found it.
C10_SnapshotUntouched ==
    \A i \in CallIds : calls[i].after = calls[i].before

----------------------------------------------------------------------------
(* Properties of the dashboard sweep (SpecApp) *)

\* C9: between the iterations of the sweep, and after it, sys.stdout is the
\* stream it was when the sweep started.
C9_StdoutRestored ==
    app_pc \in {"sweep", "done"} => sys_stdout = 0

====
